---- MODULE Spec2Model ----
(***************************************************************************)
(* Blueprint visualisation core of the templator web client:               *)
(*   src/src/web/components/BlueprintVisualization.tsx                     *)
(*   src/unnamed/part_000 (security logger, rate limiter, svg-sanitizer)   *)
(*                                                                         *)
(* JavaScript values are tagged records, so that typeof, NaN, Infinity,    *)
(* null and undefined keep the behaviour they have in the source.          *)
(***************************************************************************)
EXTENDS Integers, Naturals, Sequences, FiniteSets, TLC

(***************************************************************************)
(* JavaScript scalar values: [t, v].  t is the kind, v the integer payload *)
(* of a finite number (0 otherwise).                                       *)
(***************************************************************************)
Num(n) == [t |-> "num", v |-> n]
NaN == [t |-> "nan", v |-> 0]
Infinity == [t |-> "inf", v |-> 0]
NegInfinity == [t |-> "ninf", v |-> 0]
JSNull == [t |-> "null", v |-> 0]
Undefined == [t |-> "undef", v |-> 0]
Str == [t |-> "str", v |-> 0]

\* typeof x === 'number'
IsNumberType(x) == x.t \in {"num", "nan", "inf", "ninf"}

\* isNaN(x) for a value of number type
IsNaN(x) == x.t = "nan"

\* x <= 0 as JavaScript evaluates it on a number (false for NaN)
LeqZero(x) == (x.t = "num" /\ x.v <= 0) \/ x.t = "ninf"

\* x > 0 as JavaScript evaluates it on a number (false for NaN)
GtZero(x) == (x.t = "num" /\ x.v > 0) \/ x.t = "inf"

(***************************************************************************)
(* A JavaScript value as far as the component looks at it:                 *)
(*   isObject      typeof v === 'object' and v is not null                 *)
(*   edgesIsArray  Array.isArray(v.edges)                                  *)
(*   edges         the entries of v.edges, each [x, y]                     *)
(*   width, height v.dimensions?.width, v.dimensions?.height               *)
(*   scale         v.scale                                                 *)
(***************************************************************************)
Vertex(x, y) == [x |-> x, y |-> y]

JSValue(isObj, isArr, e, w, h, s) ==
  [isObject |-> isObj, edgesIsArray |-> isArr, edges |-> e,
   width |-> w, height |-> h, scale |-> s]

\* {} : an object with none of the fields
EmptyObject == JSValue(TRUE, FALSE, <<>>, Undefined, Undefined, Undefined)

\* a primitive that is neither a string nor an object (42, true)
Primitive == JSValue(FALSE, FALSE, <<>>, Undefined, Undefined, Undefined)

\* the result record of normalisation: null, or a BlueprintDataObject
NullResult == [isNull |-> TRUE, geom |-> Primitive]
Geometry(g) == [isNull |-> FALSE, geom |-> g]

\* isBlueprintObject without its three typeof tests
isBlueprintObjectEdgesOnly(val) ==
  /\ val.isObject
  /\ val.edgesIsArray
  /\ Len(val.edges) > 0

\* isBlueprintObject, applied to a value that is not a string
isBlueprintObject(val) ==
  /\ val.isObject
  /\ val.edgesIsArray
  /\ Len(val.edges) > 0
  /\ IsNumberType(val.width)
  /\ IsNumberType(val.height)
  /\ IsNumberType(val.scale)

(***************************************************************************)
(* JSON.  A JSON text is represented by the value it denotes; the values   *)
(* JSON can denote have no NaN, no Infinity and no undefined.              *)
(* JSON.stringify writes NaN and +-Infinity as null and leaves out a       *)
(* property whose value is undefined.                                      *)
(***************************************************************************)
JSONScalar(x) == IF x.t \in {"nan", "inf", "ninf"} THEN JSNull ELSE x

JSONStringify(val) ==
  JSValue(val.isObject, val.edgesIsArray,
          [i \in 1..Len(val.edges) |->
              Vertex(JSONScalar(val.edges[i].x), JSONScalar(val.edges[i].y))],
          JSONScalar(val.width), JSONScalar(val.height), JSONScalar(val.scale))

(***************************************************************************)
(* Strings.  A string is represented by what the code can tell about it:   *)
(*   form "empty"    ""                                                    *)
(*        "blank"    only white space                                      *)
(*        "json"     a JSON text; val is the value it denotes              *)
(*        "markup"   vector markup: an optional <svg> root and the         *)
(*                   sequence of elements in it                            *)
(*        "garbage"  any other text (no tag, no d="...", not JSON)         *)
(* An element is [tag, hasD, d]: its tag name, whether it carries a        *)
(* non-empty d="..." attribute, and that attribute's value as the sequence *)
(* of command groups the tokenizer of parseBlueprintString cuts it into:   *)
(* [c, args], a command letter and the Number() of each operand token.     *)
(* hasId tells that the element carries a non-empty id="..." attribute     *)
(* written before d; id is that value cut into command groups the same     *)
(* way (id="p1" holds no command letter and gives no group).               *)
(***************************************************************************)
Cmd(c, args) == [c |-> c, args |-> args]
Element(tag, hasD, d) ==
  [tag |-> tag, hasD |-> hasD, d |-> d, hasId |-> FALSE, id |-> <<>>]
ElementWithId(tag, id, d) ==
  [tag |-> tag, hasD |-> TRUE, d |-> d, hasId |-> TRUE, id |-> id]

Text(form, val, wrapped, elems) ==
  [form |-> form, val |-> val, wrapped |-> wrapped, elems |-> elems]

EmptyString == Text("empty", Primitive, FALSE, <<>>)
BlankString == Text("blank", Primitive, FALSE, <<>>)
GarbageString == Text("garbage", Primitive, FALSE, <<>>)
JSONText(val) == Text("json", val, FALSE, <<>>)
Markup(wrapped, elems) == Text("markup", Primitive, wrapped, elems)

\* a string of length 0 after the sanitizer's serialisation
IsEmptyText(text) ==
  \/ text.form = "empty"
  \/ text.form = "markup" /\ ~text.wrapped /\ text.elems = <<>>

(***************************************************************************)
(* svg-sanitizer (src/unnamed/part_000, lines 498-743)                     *)
(***************************************************************************)
ALLOWED_TAGS ==
  {"svg", "g", "path", "rect", "circle", "line", "polyline", "polygon",
   "text", "tspan", "defs", "use", "symbol", "marker", "linearGradient",
   "radialGradient", "stop", "pattern", "clipPath", "mask", "filter",
   "feGaussianBlur", "feOffset", "feBlend", "feColorMatrix", "title",
   "desc", "metadata"}

\* the tags the dangerousPatterns of sanitizeSVG and isSVGSafe name
DangerousTags == {"script", "iframe", "object", "embed", "form"}

\* DOMPurify.sanitize(svgString, SVG_CONFIG): elements outside the allow-list
\* are removed with their attributes and content; d is an allowed attribute;
\* text that holds no element is returned as it is.
DOMPurifySanitize(text) ==
  IF text.form = "markup"
  THEN Markup(text.wrapped,
              SelectSeq(text.elems, LAMBDA e : e.tag \in ALLOWED_TAGS))
  ELSE text

\* the loop over dangerousPatterns in sanitizeSVG
DenylistPass(text) ==
  IF text.form = "markup"
  THEN Markup(text.wrapped,
              SelectSeq(text.elems, LAMBDA e : e.tag \notin DangerousTags))
  ELSE text

\* a catch block that returns what it was given
sanitizeSVGPassThrough(text, domPurifyThrows) ==
  IF text.form = "empty" THEN EmptyString
  ELSE IF domPurifyThrows THEN text
  ELSE DenylistPass(DOMPurifySanitize(text))

\* sanitizeSVG: '' when DOMPurify.sanitize or the replace loop raises inside
\* the try block (fail secure)
sanitizeSVG(text, domPurifyThrows) ==
  IF text.form = "empty" THEN EmptyString
  ELSE IF domPurifyThrows THEN EmptyString
  ELSE DenylistPass(DOMPurifySanitize(text))

\* isSVGSafe without the <script pattern
isSVGSafeNoScript(text) ==
  /\ text.form # "empty"
  /\ \A i \in 1..Len(text.elems) :
       text.elems[i].tag \notin DangerousTags \ {"script"}

\* isSVGSafe
isSVGSafe(text) ==
  /\ text.form # "empty"
  /\ \A i \in 1..Len(text.elems) : text.elems[i].tag \notin DangerousTags

\* extractAndSanitizeSVG, for a string input: the sanitized string, or null
NullText == [isNull |-> TRUE, text |-> EmptyString]
SomeText(text) == [isNull |-> FALSE, text |-> text]

\* svgContent.trim()
Trim(text) == IF text.form = "blank" THEN EmptyString ELSE text

extractAndSanitizeSVG(text, domPurifyThrows) ==
  IF text.form = "empty" THEN NullText
  ELSE LET sanitized == sanitizeSVG(Trim(text), domPurifyThrows)
       IN IF IsEmptyText(sanitized) THEN NullText ELSE SomeText(sanitized)

(***************************************************************************)
(* The loop over dangerousPatterns of sanitizeSVG (lines 566-582) on the   *)
(* characters of a string.  A string is a sequence of fragments; the       *)
(* fragments are chosen so that a pattern occurs in the string exactly     *)
(* where the fragments below follow one another:                           *)
(*   <script>x</script>      a whole script block                          *)
(*   java script:            javascript:                                   *)
(*   on, word fragments, =   on\w+\s*=                                     *)
(*   <ifr ame                <iframe                                       *)
(*   <object  <embed  <form                                                *)
(* DenylistPass above is the same loop on markup that DOMPurify wrote.     *)
(***************************************************************************)
Fragments ==
  {"<script>x</script>", "java", "script:", "on", "load", "=", "<ifr", "ame",
   "<object", "<embed", "<form", "x"}

\* fragments made of \w characters only
WordFragments == {"java", "on", "load", "ame", "x"}

dangerousPatterns ==
  <<"script", "javascript:", "on=", "<iframe", "<object", "<embed", "<form">>

\* the number of word fragments of s in a row from position i
RECURSIVE WordRun(_, _)
WordRun(s, i) ==
  IF i > Len(s) THEN 0
  ELSE IF s[i] \in WordFragments THEN 1 + WordRun(s, i + 1)
  ELSE 0

Follows(s, i, a, b) == i + 1 <= Len(s) /\ s[i] = a /\ s[i + 1] = b

\* the number of fragments the pattern matches at position i of s, 0 if it
\* does not match there
MatchLength(pattern, s, i) ==
  CASE pattern = "script" -> IF s[i] = "<script>x</script>" THEN 1 ELSE 0
    [] pattern = "javascript:" -> IF Follows(s, i, "java", "script:") THEN 2 ELSE 0
    [] pattern = "on=" ->
         IF /\ s[i] = "on"
            /\ WordRun(s, i + 1) >= 1
            /\ i + WordRun(s, i + 1) + 1 <= Len(s)
            /\ s[i + WordRun(s, i + 1) + 1] = "="
         THEN WordRun(s, i + 1) + 2 ELSE 0
    [] pattern = "<iframe" -> IF Follows(s, i, "<ifr", "ame") THEN 2 ELSE 0
    [] OTHER -> IF s[i] = pattern THEN 1 ELSE 0

\* pattern.test(s)
Test(pattern, s) == \E i \in 1..Len(s) : MatchLength(pattern, s, i) > 0

\* clean.replace(pattern, '') with the g flag: one scan from the left, the
\* text after a removed match is scanned from where the match ended
RECURSIVE Replace(_, _, _)
Replace(pattern, s, i) ==
  IF i > Len(s) THEN <<>>
  ELSE IF MatchLength(pattern, s, i) > 0
  THEN Replace(pattern, s, i + MatchLength(pattern, s, i))
  ELSE <<s[i]>> \o Replace(pattern, s, i + 1)

\* for (const pattern of dangerousPatterns) clean = clean.replace(pattern, '')
RECURSIVE ReplaceLoop(_, _)
ReplaceLoop(clean, k) ==
  IF k > Len(dangerousPatterns) THEN clean
  ELSE ReplaceLoop(Replace(dangerousPatterns[k], clean, 1), k + 1)

\* lines 576-582 on the characters of sanitized
dangerousPatternsLoop(sanitized) == ReplaceLoop(sanitized, 1)

(***************************************************************************)
(* validateSVGDimensions, lines 691-734.  The string is represented by the *)
(* attributes its three patterns look for: width="n", height="n" and a     *)
(* viewBox with four numbers, each present or not.                         *)
(***************************************************************************)
NoAttr == [present |-> FALSE, v |-> 0]
Attr(n) == [present |-> TRUE, v |-> n]
NoViewBox == [present |-> FALSE, w |-> 0, h |-> 0]
ViewBox(w, h) == [present |-> TRUE, w |-> w, h |-> h]

Declared(isEmpty, width, height, viewBox) ==
  [isEmpty |-> isEmpty, width |-> width, height |-> height, viewBox |-> viewBox]

DefaultMaxWidth == 10000
DefaultMaxHeight == 10000

validateSVGDimensions(svgString, maxWidth, maxHeight) ==
  IF svgString.isEmpty THEN FALSE
  ELSE IF /\ svgString.width.present /\ svgString.height.present
          /\ (svgString.width.v > maxWidth \/ svgString.height.v > maxHeight)
  THEN FALSE
  ELSE IF /\ svgString.viewBox.present
          /\ (svgString.viewBox.w > maxWidth \/ svgString.viewBox.h > maxHeight)
  THEN FALSE
  ELSE TRUE

(***************************************************************************)
(* Number arithmetic of the path interpreter, on JavaScript numbers.       *)
(***************************************************************************)
MathMin(a, b) ==
  IF a.t = "nan" \/ b.t = "nan" THEN NaN
  ELSE IF a.t = "ninf" \/ b.t = "ninf" THEN NegInfinity
  ELSE IF a.t = "inf" THEN b
  ELSE IF b.t = "inf" THEN a
  ELSE IF a.v <= b.v THEN a ELSE b

MathMax(a, b) ==
  IF a.t = "nan" \/ b.t = "nan" THEN NaN
  ELSE IF a.t = "inf" \/ b.t = "inf" THEN Infinity
  ELSE IF a.t = "ninf" THEN b
  ELSE IF b.t = "ninf" THEN a
  ELSE IF a.v >= b.v THEN a ELSE b

\* a - b
Minus(a, b) ==
  IF a.t = "nan" \/ b.t = "nan" THEN NaN
  ELSE IF a.t = "num" /\ b.t = "num" THEN Num(a.v - b.v)
  ELSE IF a.t = b.t THEN NaN
  ELSE IF a.t = "inf" \/ b.t = "ninf" THEN Infinity
  ELSE NegInfinity

(***************************************************************************)
(* parseBlueprintString, lines 63-127: the path interpreter.               *)
(* st is the loop state [edges, currentX, currentY, minX, minY, maxX,     *)
(* maxY].                                                                  *)
(***************************************************************************)
ParserStart ==
  [edges |-> <<>>, currentX |-> Num(0), currentY |-> Num(0),
   minX |-> Infinity, minY |-> Infinity,
   maxX |-> NegInfinity, maxY |-> NegInfinity]

\* cmd[0].toUpperCase()
ToUpperCase(c) ==
  CASE c = "m" -> "M" [] c = "l" -> "L" [] c = "h" -> "H" [] c = "v" -> "V"
    [] c = "z" -> "Z" [] c = "c" -> "C" [] OTHER -> c

\* one iteration of the for loop over commands
ParserStep(st, cmd) ==
  LET type == ToUpperCase(cmd.c)
      coords == cmd.args
  IN CASE type \in {"M", "L"} /\ Len(coords) >= 2 ->
            [edges |-> Append(st.edges, Vertex(coords[1], coords[2])),
             currentX |-> coords[1], currentY |-> coords[2],
             minX |-> MathMin(st.minX, coords[1]),
             minY |-> MathMin(st.minY, coords[2]),
             maxX |-> MathMax(st.maxX, coords[1]),
             maxY |-> MathMax(st.maxY, coords[2])]
       [] type = "H" /\ Len(coords) >= 1 ->
            [st EXCEPT !.edges = Append(st.edges, Vertex(coords[1], st.currentY)),
                       !.currentX = coords[1],
                       !.minX = MathMin(st.minX, coords[1]),
                       !.maxX = MathMax(st.maxX, coords[1])]
       [] type = "V" /\ Len(coords) >= 1 ->
            [st EXCEPT !.edges = Append(st.edges, Vertex(st.currentX, coords[1])),
                       !.currentY = coords[1],
                       !.minY = MathMin(st.minY, coords[1]),
                       !.maxY = MathMax(st.maxY, coords[1])]
       [] OTHER -> st

RECURSIVE ParserLoop(_, _)
ParserLoop(st, commands) ==
  IF commands = <<>> THEN st
  ELSE ParserLoop(ParserStep(st, Head(commands)), Tail(commands))

\* the result without the edges.length < 2 return
ParserResultAnyLength(st) ==
  Geometry(JSValue(TRUE, TRUE, st.edges,
                   Minus(st.maxX, st.minX), Minus(st.maxY, st.minY), Num(1)))

\* lines 114-127: the result, from the loop state after the last command
ParserResult(st) ==
  IF Len(st.edges) < 2 THEN NullResult
  ELSE Geometry(JSValue(TRUE, TRUE, st.edges,
                        Minus(st.maxX, st.minX), Minus(st.maxY, st.minY),
                        Num(1)))

\* lines 70-127: from the path data to the geometry, or null
ParsePathData(pathData) == ParserResult(ParserLoop(ParserStart, pathData))

\* svgString.match(/d="([^"]+)"/): the first place of the string where
\* d="..." occurs, if any; the pattern has no word boundary, so the tail of
\* id="..." is such a place
RECURSIVE FirstPathData(_)
FirstPathData(elems) ==
  IF elems = <<>> THEN [found |-> FALSE, d |-> <<>>]
  ELSE IF Head(elems).hasId THEN [found |-> TRUE, d |-> Head(elems).id]
  ELSE IF Head(elems).hasD THEN [found |-> TRUE, d |-> Head(elems).d]
  ELSE FirstPathData(Tail(elems))

\* lines 65-127, from the result of match()
ParseMatch(pathMatch) ==
  IF ~pathMatch.found THEN NullResult ELSE ParsePathData(pathMatch.d)

\* lines 63-127, applied to the string the code hands to match()
ParseMarkup(text) == ParseMatch(FirstPathData(text.elems))

(***************************************************************************)
(* parseBlueprintString, lines 27-132.                                     *)
(* A completion is [raised, result, log]: whether an exception left the    *)
(* try block, the value returned, and the security events handed to        *)
(* logSecurityEvent.                                                       *)
(* domPurifyThrows: DOMPurify.sanitize raises in this pass.                *)
(* loggerThrows: logSecurityEvent raises in this pass (getSessionId reads  *)
(* sessionStorage outside any try).                                        *)
(***************************************************************************)
Completion(raised, result, log) ==
  [raised |-> raised, result |-> result, log |-> log]

\* the body of the try block, lines 29-127
ParseBlueprintTry(text, domPurifyThrows, loggerThrows) ==
  IF text.form \in {"empty", "blank"} THEN Completion(FALSE, NullResult, <<>>)
  ELSE
    LET sanitizedSvg == extractAndSanitizeSVG(text, domPurifyThrows)
    IN IF sanitizedSvg.isNull
       THEN Completion(loggerThrows, NullResult, <<"SVG_SANITIZATION_FAILED">>)
       ELSE IF ~isSVGSafe(text) /\ loggerThrows
       THEN Completion(TRUE, NullResult, <<"SVG_DANGEROUS_CONTENT_DETECTED">>)
       ELSE
         LET log == IF ~isSVGSafe(text)
                    THEN <<"SVG_DANGEROUS_CONTENT_DETECTED">> ELSE <<>>
         IN IF text.form = "json" /\ isBlueprintObject(text.val)
            THEN Completion(FALSE, Geometry(text.val), log)
            ELSE Completion(FALSE, ParseMarkup(text), log)

\* a catch that lets the exception through
Rethrow(c) == c

\* the catch of line 128: any exception becomes null
Catch(c) == IF c.raised THEN Completion(FALSE, NullResult, c.log) ELSE c

parseBlueprintString(text, domPurifyThrows, loggerThrows) ==
  Catch(ParseBlueprintTry(text, domPurifyThrows, loggerThrows))

(***************************************************************************)
(* The blueprintData prop: [kind, val, text] with kind "absent" (null or   *)
(* undefined), "string" (text holds it) or "value" (val holds it).         *)
(***************************************************************************)
Absent == [kind |-> "absent", val |-> Primitive, text |-> EmptyString]
StringData(text) == [kind |-> "string", val |-> Primitive, text |-> text]
ValueData(val) == [kind |-> "value", val |-> val, text |-> EmptyString]

\* normalizeBlueprintData, lines 134-146
normalizeBlueprintData(data, domPurifyThrows, loggerThrows) ==
  IF data.kind = "absent" THEN Completion(FALSE, NullResult, <<>>)
  ELSE IF data.kind = "string"
  THEN IF data.text.form = "empty" THEN Completion(FALSE, NullResult, <<>>)
       ELSE parseBlueprintString(data.text, domPurifyThrows, loggerThrows)
  ELSE IF isBlueprintObject(data.val)
  THEN Completion(FALSE, Geometry(data.val), <<>>)
  ELSE Completion(FALSE, NullResult, <<>>)

(***************************************************************************)
(* The validation memo, lines 164-188.                                     *)
(***************************************************************************)
Invalid(reason) == [isValid |-> FALSE, reason |-> reason]
Valid == [isValid |-> TRUE, reason |-> "null"]

\* the zero-dimensions stage placed before the scale stage
ValidationDimensionsFirst(parsed) ==
  IF parsed.isNull THEN Invalid("no-data")
  ELSE IF Len(parsed.geom.edges) < 2 THEN Invalid("insufficient-edges")
  ELSE IF ~IsNumberType(parsed.geom.width) \/ ~IsNumberType(parsed.geom.height)
  THEN Invalid("invalid-dimensions")
  ELSE IF LeqZero(parsed.geom.width) \/ LeqZero(parsed.geom.height)
  THEN Invalid("zero-dimensions")
  ELSE IF ~IsNumberType(parsed.geom.scale) \/ LeqZero(parsed.geom.scale)
  THEN Invalid("invalid-scale")
  ELSE Valid

\* the vertex-count stage asking for a polygon (length < 3)
ValidationThreeVertices(parsed) ==
  IF parsed.isNull THEN Invalid("no-data")
  ELSE IF Len(parsed.geom.edges) < 3 THEN Invalid("insufficient-edges")
  ELSE IF ~IsNumberType(parsed.geom.width) \/ ~IsNumberType(parsed.geom.height)
  THEN Invalid("invalid-dimensions")
  ELSE IF ~IsNumberType(parsed.geom.scale) \/ LeqZero(parsed.geom.scale)
  THEN Invalid("invalid-scale")
  ELSE IF LeqZero(parsed.geom.width) \/ LeqZero(parsed.geom.height)
  THEN Invalid("zero-dimensions")
  ELSE Valid

Validation(parsed) ==
  IF parsed.isNull THEN Invalid("no-data")
  ELSE IF Len(parsed.geom.edges) < 2 THEN Invalid("insufficient-edges")
  ELSE IF ~IsNumberType(parsed.geom.width) \/ ~IsNumberType(parsed.geom.height)
  THEN Invalid("invalid-dimensions")
  ELSE IF ~IsNumberType(parsed.geom.scale) \/ LeqZero(parsed.geom.scale)
  THEN Invalid("invalid-scale")
  ELSE IF LeqZero(parsed.geom.width) \/ LeqZero(parsed.geom.height)
  THEN Invalid("zero-dimensions")
  ELSE Valid

(***************************************************************************)
(* What the component returns, lines 259-529.                              *)
(*   outcome  "processing", a validation reason, "invalid-edge-data" or    *)
(*            "diagram"                                                    *)
(*   title, message  the two texts of a placeholder                        *)
(*   drawn    the vertices of the outline path (validEdges)                *)
(***************************************************************************)
View(outcome, title, message, drawn) ==
  [outcome |-> outcome, title |-> title, message |-> message, drawn |-> drawn]

\* a messages record whose no-data title follows the phase as well
MessagesTitleByPhase(reason, jobStatus) ==
  IF reason = "no-data"
  THEN [title |-> IF jobStatus = "capturing"
                  THEN "Awaiting Capture" ELSE "No Blueprint Data",
        message |-> IF jobStatus = "capturing"
                    THEN "Blueprint will be generated after video capture is complete"
                    ELSE "No blueprint data available for this job"]
  ELSE [title |-> "Invalid Blueprint", message |-> reason]

\* the messages record, lines 279-302
Messages(reason, jobStatus) ==
  CASE reason = "no-data" ->
         [title |-> "No Blueprint Data",
          message |-> IF jobStatus = "capturing"
                      THEN "Blueprint will be generated after video capture is complete"
                      ELSE "No blueprint data available for this job"]
    [] reason = "insufficient-edges" ->
         [title |-> "Invalid Blueprint",
          message |-> "The blueprint data contains insufficient edge points to render"]
    [] reason = "invalid-dimensions" ->
         [title |-> "Invalid Dimensions",
          message |-> "The blueprint dimensions are missing or invalid"]
    [] reason = "invalid-scale" ->
         [title |-> "Invalid Scale",
          message |-> "The blueprint scale value is invalid"]
    [] reason = "zero-dimensions" ->
         [title |-> "Zero Dimensions",
          message |-> "The blueprint has zero or negative dimensions"]

\* the filter written with isFinite instead of !isNaN
IsValidEdgeFinite(edge) == edge.x.t = "num" /\ edge.y.t = "num"

\* the filter without its isNaN tests
IsValidEdgeTypeOnly(edge) == IsNumberType(edge.x) /\ IsNumberType(edge.y)

\* the predicate of edges.filter, lines 324-327
IsValidEdge(edge) ==
  /\ IsNumberType(edge.x)
  /\ IsNumberType(edge.y)
  /\ ~IsNaN(edge.x)
  /\ ~IsNaN(edge.y)

ValidEdges(edges) == SelectSeq(edges, IsValidEdge)

\* the returns with the validation placeholder placed before the processing
\* one
RenderValidationFirst(jobStatus, parsed, validation) ==
  IF parsed.isNull \/ ~validation.isValid
  THEN View(validation.reason, Messages(validation.reason, jobStatus).title,
            Messages(validation.reason, jobStatus).message, <<>>)
  ELSE IF jobStatus = "processing"
  THEN View("processing", "PROCESSING BLUEPRINT...",
            "AI is generating the blueprint from captured video", <<>>)
  ELSE IF Len(ValidEdges(parsed.geom.edges)) < 2
  THEN View("invalid-edge-data", "Invalid Edge Data",
            "The blueprint contains invalid or corrupted edge coordinates", <<>>)
  ELSE View("diagram", "", "", ValidEdges(parsed.geom.edges))

Render(jobStatus, parsed, validation) ==
  IF jobStatus = "processing"
  THEN View("processing", "PROCESSING BLUEPRINT...",
            "AI is generating the blueprint from captured video", <<>>)
  ELSE IF parsed.isNull \/ ~validation.isValid
  THEN LET m == Messages(validation.reason, jobStatus)
       IN View(validation.reason, m.title, m.message, <<>>)
  ELSE IF Len(ValidEdges(parsed.geom.edges)) < 2
  THEN View("invalid-edge-data", "Invalid Edge Data",
            "The blueprint contains invalid or corrupted edge coordinates", <<>>)
  ELSE View("diagram", "", "", ValidEdges(parsed.geom.edges))

(***************************************************************************)
(* Bounds and input pools.                                                 *)
(***************************************************************************)
\* longest edges array of an input object
MaxEdges == 3
\* most viewport events in one run
MaxEvents == 7

SeqsUpTo(S, n) == UNION {[1..k -> S] : k \in 0..n}

VertexPool ==
  {Vertex(Num(0), Num(0)), Vertex(Num(100), Num(50)), Vertex(NaN, Num(0)),
   Vertex(Infinity, Num(50)), Vertex(Num(100), Undefined)}

WidthPool == {Num(0), Num(100), NaN, Undefined}
HeightPool == {Num(0), Num(50), NaN}
ScalePool == {Num(1), Num(0), NaN, Str}

\* an object with an edges array and the three numeric fields
Object(e, w, h, s) == JSValue(TRUE, TRUE, e, w, h, s)

\* {} and 42
OtherValues == {EmptyObject, Primitive}

\* d="M 0 0 L 100 0 L 100 50 L 0 50 Z"
PathRectangle ==
  <<Cmd("M", <<Num(0), Num(0)>>), Cmd("L", <<Num(100), Num(0)>>),
    Cmd("L", <<Num(100), Num(50)>>), Cmd("L", <<Num(0), Num(50)>>),
    Cmd("Z", <<>>)>>
\* d="M 50 50"
PathSinglePoint == <<Cmd("M", <<Num(50), Num(50)>>)>>
\* d="m 0 0 h 7 v 7"
PathInjected ==
  <<Cmd("m", <<Num(0), Num(0)>>), Cmd("h", <<Num(7)>>), Cmd("v", <<Num(7)>>)>>

\* d="M 0 0 H 100 V 50"
PathHV ==
  <<Cmd("M", <<Num(0), Num(0)>>), Cmd("H", <<Num(100)>>), Cmd("V", <<Num(50)>>)>>

\* d="V 50 H 100"
PathVH == <<Cmd("V", <<Num(50)>>), Cmd("H", <<Num(100)>>)>>
\* d="M 0 0 C 1 2 3 4 5 6 l 100 50"
PathCurve ==
  <<Cmd("M", <<Num(0), Num(0)>>),
    Cmd("C", <<Num(1), Num(2), Num(3), Num(4), Num(5), Num(6)>>),
    Cmd("l", <<Num(100), Num(50)>>)>>
\* d="C 1 2 3 4 5 6 Z"
PathIgnored ==
  <<Cmd("C", <<Num(1), Num(2), Num(3), Num(4), Num(5), Num(6)>>), Cmd("Z", <<>>)>>

PathRect == Element("path", TRUE, PathRectangle)
PathPoint == Element("path", TRUE, PathSinglePoint)
Circle == Element("circle", FALSE, <<>>)
Script == Element("script", FALSE, <<>>)
\* a script element in which d="m 0 0 h 7 v 7" occurs
ScriptWithPath == Element("script", TRUE, PathInjected)

\* markup strings: an <svg> root around elements, or a bare script element
MarkupPool ==
  {Markup(TRUE, <<>>),
   Markup(TRUE, <<PathRect>>),
   Markup(TRUE, <<Circle>>),
   Markup(TRUE, <<PathPoint>>),
   Markup(TRUE, <<Element("path", TRUE, PathHV)>>),
   Markup(TRUE, <<Element("path", TRUE, PathVH)>>),
   Markup(TRUE, <<Element("path", TRUE, PathCurve)>>),
   Markup(TRUE, <<Element("path", TRUE, PathIgnored)>>),
   Markup(TRUE, <<ElementWithId("path", <<>>, PathRectangle)>>),
   Markup(TRUE, <<Circle, PathRect>>),
   Markup(TRUE, <<Script, PathRect>>),
   Markup(TRUE, <<ScriptWithPath, PathRect>>),
   Markup(TRUE, <<ScriptWithPath>>),
   Markup(FALSE, <<Script>>)}

\* strings that are neither an encoded object nor markup with content
OtherStrings ==
  {EmptyString, BlankString, GarbageString}
  \cup {JSONText(JSONStringify(v)) : v \in OtherValues}

JobStatuses == {"capturing", "processing", "complete", "failed"}

(***************************************************************************)
(* Zoom arithmetic.  The zoom factor is an exact fraction [n, d] in lowest *)
(* terms (the source holds a double; clamping acts on either the same      *)
(* way).                                                                   *)
(***************************************************************************)
RECURSIVE GCD(_, _)
GCD(a, b) == IF b = 0 THEN a ELSE GCD(b, a % b)

Rat(n, d) == LET g == GCD(n, d) IN [n |-> n \div g, d |-> d \div g]
RatMul(a, b) == Rat(a.n * b.n, a.d * b.d)
RatLeq(a, b) == a.n * b.d <= b.n * a.d
RatMin(a, b) == IF RatLeq(a, b) THEN a ELSE b
RatMax(a, b) == IF RatLeq(a, b) THEN b ELSE a

ZoomMin == Rat(1, 2)
ZoomMax == Rat(3, 1)
ZoomInitial == Rat(1, 1)

\* the updater of handleWheel, lines 205-209
WheelZoom(prevZoom, deltaYPositive) ==
  LET zoomFactor == IF deltaYPositive THEN Rat(9, 10) ELSE Rat(11, 10)
      newZoom == RatMul(prevZoom, zoomFactor)
  IN RatMax(ZoomMin, RatMin(ZoomMax, newZoom))

\* handleZoomIn without its Math.min
ZoomInUnclamped(prevZoom) == RatMul(prevZoom, Rat(6, 5))

\* the updater of handleZoomIn, line 241
ZoomInZoom(prevZoom) == RatMin(ZoomMax, RatMul(prevZoom, Rat(6, 5)))

\* the updater of handleZoomOut, line 245
ZoomOutZoom(prevZoom) == RatMax(ZoomMin, RatMul(prevZoom, Rat(4, 5)))

Point(x, y) == [x |-> x, y |-> y]
PointerPool == {Point(0, 0), Point(10, 0), Point(0, 5)}

(***************************************************************************)
(* State.                                                                  *)
(*   blueprintData, jobStatus   the props of the mounted component         *)
(*   domPurifyThrows, loggerThrows   what failed inside the last            *)
(*                              normalisation pass                         *)
(*   parsedData, validation     the two memos                              *)
(*   passLog                    security events the last pass handed to     *)
(*                              logSecurityEvent                           *)
(*   escaped                    an exception left normalizeBlueprintData   *)
(*   view                       what the last render returned              *)
(*   prev                       props and memo of the pass before the last *)
(*   mounted                    the component is mounted                   *)
(*   listener                   the wheel listener of the mount effect:    *)
(*                              "none", "attached" (on the svg element on  *)
(*                              screen) or "detached" (on an svg element   *)
(*                              no longer on screen)                       *)
(*   zoom, pan, isDragging, dragStart   the four useState cells            *)
(*   events                     viewport events so far                     *)
(*   history                    of the viewport events of this mount: the  *)
(*                              last event ("move", "reset", "other" or    *)
(*                              "none"); the last of pointer-down, -up and *)
(*                              -leave; and, while                         *)
(*                              only pointer-moves followed the last       *)
(*                              pointer-down (active), pan and pointer at  *)
(*                              that pointer-down, the last pointer        *)
(*                              position and the number of moves           *)
(*   svgInput, clean, sizeOk    a call of the sanitizer's functions on     *)
(*                              their own: the argument, the result of the *)
(*                              dangerousPatterns loop, the result of      *)
(*                              validateSVGDimensions                      *)
(*   now                        the clock read by Date.now()               *)
(*   buckets                    TokenBucketRateLimiter.buckets             *)
(*   windows                    SlidingWindowRateLimiter.windows           *)
(*   calls                      per key, the checkLimit calls so far: the  *)
(*                              time of the call and whether it returned   *)
(*                              true (ok) or raised RateLimitError         *)
(*   hook                       the useJob / useJobs instance on screen:   *)
(*                              mounted or not, its id / filter value      *)
(*                              (key), the number of the instance and of   *)
(*                              its current effect run                     *)
(*   effects                    the runs of the hook's effect: the         *)
(*                              `unsubscribe` variable of each closure     *)
(*   fetches                    the calls of fetchJob / fetchJobs          *)
(*   updates                    what the listeners did: unsubscribe calls, *)
(*                              state updates after unmount, data of a     *)
(*                              superseded id / filter put into state      *)
(***************************************************************************)
VARIABLES blueprintData, jobStatus, domPurifyThrows, loggerThrows,
          parsedData, validation, passLog, escaped, view, prev,
          mounted, listener, zoom, pan, isDragging, dragStart, events,
          history, svgInput, clean, sizeOk,
          now, buckets, windows, calls, hook, effects, fetches, updates

props == <<blueprintData, jobStatus>>
pass == <<domPurifyThrows, loggerThrows, parsedData, validation, passLog, escaped>>
viewport == <<zoom, pan, isDragging, dragStart>>
sanitizerCall == <<svgInput, clean, sizeOk>>
limiters == <<now, buckets, windows, calls>>
hooks == <<hook, effects, fetches, updates>>
services == <<now, buckets, windows, calls, hook, effects, fetches, updates>>
component == <<blueprintData, jobStatus, domPurifyThrows, loggerThrows,
               parsedData, validation, passLog, escaped, view, prev,
               mounted, listener, zoom, pan, isDragging, dragStart, events,
               history>>
vars == <<blueprintData, jobStatus, domPurifyThrows, loggerThrows,
          parsedData, validation, passLog, escaped, view, prev,
          mounted, listener, zoom, pan, isDragging, dragStart, events,
          history, svgInput, clean, sizeOk,
          now, buckets, windows, calls, hook, effects, fetches, updates>>

NoHistory ==
  [lastEvent |-> "none", lastPointer |-> "none", active |-> FALSE,
   pan0 |-> Point(0, 0), p0 |-> Point(0, 0), last |-> Point(0, 0),
   moves |-> 0]

\* no call of the sanitizer's functions on their own
NotRun == [ran |-> FALSE, chars |-> <<>>, ok |-> FALSE]
NoCall ==
  /\ svgInput = [chars |-> <<>>, declared |-> Declared(TRUE, NoAttr, NoAttr, NoViewBox)]
  /\ clean = NotRun
  /\ sizeOk = NotRun

\* the rate limiters' keys, and a limiter no call was made on
Keys == {"a", "b"}
NoBucket == [stored |-> FALSE, tokens |-> 0, lastRefill |-> 0]
NoLimiterCall ==
  /\ now = 0
  /\ buckets = [key \in Keys |-> NoBucket]
  /\ windows = [key \in Keys |-> <<>>]
  /\ calls = [key \in Keys |-> <<>>]

\* no hook instance was ever mounted
NoInstance ==
  [mounted |-> FALSE, kind |-> "none", key |-> "none", instance |-> 0,
   effect |-> 0, job |-> "none"]
NoUpdates == [unsubscribes |-> 0, afterUnmount |-> FALSE, superseded |-> FALSE]
NoHook ==
  /\ hook = NoInstance
  /\ effects = <<>>
  /\ fetches = <<>>
  /\ updates = NoUpdates

NoService == NoLimiterCall /\ NoHook

NoPrev ==
  [has |-> FALSE, data |-> Absent, parsed |-> NullResult, failed |-> FALSE]

\* the first render of a mount with the given props, and its mount effect
\* (lines 154-162, 164-188, 248-257): the values of the state after it
RenderPass(c, status) ==
  [parsedData |-> c.result, validation |-> Validation(c.result),
   passLog |-> c.log, escaped |-> c.raised,
   view |-> Render(status, c.result, Validation(c.result))]

FirstRender(data, status, dpt, lt) ==
  RenderPass(normalizeBlueprintData(data, dpt, lt), status)

\* the mount effect, lines 248-257: svgRef.current is set only if the first
\* render returned the diagram
MountEffect(v) == IF v.outcome = "diagram" THEN "attached" ELSE "none"

InitFrom(f, data, status, dpt, lt) ==
  /\ blueprintData = data
  /\ jobStatus = status
  /\ domPurifyThrows = dpt
  /\ loggerThrows = lt
  /\ parsedData = f.parsedData
  /\ validation = f.validation
  /\ passLog = f.passLog
  /\ escaped = f.escaped
  /\ view = f.view
  /\ prev = NoPrev
  /\ mounted = TRUE
  /\ listener = MountEffect(f.view)
  /\ zoom = ZoomInitial
  /\ pan = Point(0, 0)
  /\ isDragging = FALSE
  /\ dragStart = Point(0, 0)
  /\ events = 0
  /\ history = NoHistory

InitWith(data, status, dpt, lt) ==
  InitFrom(FirstRender(data, status, dpt, lt), data, status, dpt, lt)

\* the svg element the listener is on leaves the screen when a render returns
\* a placeholder; a later diagram is a new element
ListenerAfter(l, outcome) ==
  IF l = "attached" /\ outcome # "diagram" THEN "detached" ELSE l

\* the memos and the returned element of a render take the values f
Rerender(f) ==
  /\ parsedData' = f.parsedData
  /\ validation' = f.validation
  /\ passLog' = f.passLog
  /\ escaped' = f.escaped
  /\ view' = f.view
  /\ listener' = ListenerAfter(listener, f.view.outcome)

\* a render with a new blueprintData prop: both memos are recomputed
SetBlueprintData(data, dpt, lt) ==
  /\ mounted
  /\ data # blueprintData
  /\ blueprintData' = data
  /\ domPurifyThrows' = dpt
  /\ loggerThrows' = lt
  /\ Rerender(FirstRender(data, jobStatus, dpt, lt))
  /\ prev' = [has |-> TRUE, data |-> blueprintData, parsed |-> parsedData,
              failed |-> domPurifyThrows \/ loggerThrows]
  /\ UNCHANGED <<jobStatus, mounted, viewport, events, history, sanitizerCall, services>>

\* a render with a new jobStatus prop: the memos are kept
SetJobStatus(status) ==
  /\ mounted
  /\ status # jobStatus
  /\ jobStatus' = status
  /\ view' = Render(status, parsedData, validation)
  /\ listener' = ListenerAfter(listener, Render(status, parsedData, validation).outcome)
  /\ UNCHANGED <<blueprintData, pass, prev, mounted, viewport, events,
                 history, sanitizerCall, services>>

(***************************************************************************)
(* Viewport handlers, lines 202-246, and the mount effect, lines 248-257.  *)
(***************************************************************************)
\* the svg element and the three buttons exist only in the diagram
DiagramShown == mounted /\ view.outcome = "diagram"

CountEvent ==
  /\ events < MaxEvents
  /\ events' = events + 1

\* handleWheel runs only through the listener the mount effect added
Wheel(deltaYPositive) ==
  /\ DiagramShown
  /\ listener = "attached"
  /\ CountEvent
  /\ zoom' = WheelZoom(zoom, deltaYPositive)
  /\ history' = [history EXCEPT !.lastEvent = "other"]
  /\ UNCHANGED <<sanitizerCall, services, props, pass, view, prev, mounted, listener,
                 pan, isDragging, dragStart>>

handleMouseDown(p) ==
  /\ DiagramShown
  /\ CountEvent
  /\ isDragging' = TRUE
  /\ dragStart' = p
  /\ history' = [lastEvent |-> "other", lastPointer |-> "down", active |-> TRUE,
                 pan0 |-> pan, p0 |-> p, last |-> p, moves |-> 0]
  /\ UNCHANGED <<sanitizerCall, services, props, pass, view, prev, mounted, listener, zoom, pan>>

\* a handleMouseMove that leaves the anchor where it was
AnchorKept(anchor, p) == anchor

\* setPan(prevPan => ...) of handleMouseMove, lines 222-225
MovedPan(prevPan, anchor, p) ==
  Point(prevPan.x + (p.x - anchor.x), prevPan.y + (p.y - anchor.y))

\* setDragStart of handleMouseMove, line 227
MovedAnchor(anchor, p) == p

\* a handleMouseMove without the isDragging test of line 217
MoveWhenIdleToo(dragging) == TRUE

\* if (!isDragging) return, line 217
MoveApplies(dragging) == dragging

handleMouseMove(p) ==
  /\ DiagramShown
  /\ CountEvent
  /\ IF ~MoveApplies(isDragging)
     THEN UNCHANGED <<pan, dragStart>>
     ELSE /\ pan' = MovedPan(pan, dragStart, p)
          /\ dragStart' = MovedAnchor(dragStart, p)
  /\ history' = IF history.active
                THEN [history EXCEPT !.lastEvent = "move", !.last = p,
                                     !.moves = @ + 1]
                ELSE [history EXCEPT !.lastEvent = "move"]
  /\ UNCHANGED <<sanitizerCall, services, props, pass, view, prev, mounted, listener, zoom, isDragging>>

\* onMouseUp
handleMouseUp ==
  /\ DiagramShown
  /\ CountEvent
  /\ isDragging' = FALSE
  /\ history' = [NoHistory EXCEPT !.lastEvent = "other", !.lastPointer = "up"]
  /\ UNCHANGED <<sanitizerCall, services, props, pass, view, prev, mounted, listener,
                 zoom, pan, dragStart>>

\* onMouseLeave={handleMouseUp}
MouseLeave ==
  /\ DiagramShown
  /\ CountEvent
  /\ isDragging' = FALSE
  /\ history' = [NoHistory EXCEPT !.lastEvent = "other", !.lastPointer = "leave"]
  /\ UNCHANGED <<sanitizerCall, services, props, pass, view, prev, mounted, listener,
                 zoom, pan, dragStart>>

handleReset ==
  /\ DiagramShown
  /\ CountEvent
  /\ zoom' = ZoomInitial
  /\ pan' = Point(0, 0)
  /\ history' = [NoHistory EXCEPT !.lastEvent = "reset",
                                  !.lastPointer = history.lastPointer]
  /\ UNCHANGED <<sanitizerCall, services, props, pass, view, prev, mounted, listener,
                 isDragging, dragStart>>

\* a zoom-in that recentres the diagram as well
ZoomInAndRecentre ==
  /\ DiagramShown
  /\ CountEvent
  /\ zoom' = ZoomInZoom(zoom)
  /\ pan' = Point(0, 0)
  /\ history' = [NoHistory EXCEPT !.lastEvent = "other",
                                  !.lastPointer = history.lastPointer]
  /\ UNCHANGED <<sanitizerCall, services, props, pass, view, prev, mounted, listener,
                 isDragging, dragStart>>

handleZoomIn ==
  /\ DiagramShown
  /\ CountEvent
  /\ zoom' = ZoomInZoom(zoom)
  /\ history' = [history EXCEPT !.lastEvent = "other"]
  /\ UNCHANGED <<sanitizerCall, services, props, pass, view, prev, mounted, listener,
                 pan, isDragging, dragStart>>

handleZoomOut ==
  /\ DiagramShown
  /\ CountEvent
  /\ zoom' = ZoomOutZoom(zoom)
  /\ history' = [history EXCEPT !.lastEvent = "other"]
  /\ UNCHANGED <<sanitizerCall, services, props, pass, view, prev, mounted, listener,
                 pan, isDragging, dragStart>>

\* unmount: the effect's cleanup removes the listener; the state cells go
Unmount ==
  /\ mounted
  /\ mounted' = FALSE
  /\ listener' = "none"
  /\ zoom' = ZoomInitial
  /\ pan' = Point(0, 0)
  /\ isDragging' = FALSE
  /\ dragStart' = Point(0, 0)
  /\ history' = NoHistory
  /\ UNCHANGED <<props, pass, view, prev, events, sanitizerCall, services>>

\* the first render and the mount effect of a new mount
MountRender(f) ==
  /\ parsedData' = f.parsedData
  /\ validation' = f.validation
  /\ passLog' = f.passLog
  /\ escaped' = f.escaped
  /\ view' = f.view
  /\ listener' = MountEffect(f.view)

\* a new mount with the props the parent holds
Remount ==
  /\ ~mounted
  /\ domPurifyThrows' = FALSE
  /\ loggerThrows' = FALSE
  /\ MountRender(FirstRender(blueprintData, jobStatus, FALSE, FALSE))
  /\ mounted' = TRUE
  /\ prev' = NoPrev
  /\ UNCHANGED <<props, viewport, events, history, sanitizerCall, services>>

(***************************************************************************)
(* SpecData: the component is mounted with any input of the pools; the     *)
(* job record then delivers another markup string, or the JSON encoding of *)
(* the object it held.                                                     *)
(***************************************************************************)
DataStatuses == {"capturing", "processing", "complete"}

\* mounted with no data, or with a value that is not a string
InitValue ==
  \E status \in DataStatuses :
    \/ InitWith(Absent, status, FALSE, FALSE)
    \/ \E v \in OtherValues : InitWith(ValueData(v), status, FALSE, FALSE)
    \/ \E e \in SeqsUpTo(VertexPool, MaxEdges), w \in WidthPool,
          h \in HeightPool, s \in ScalePool :
         InitWith(ValueData(Object(e, w, h, s)), status, FALSE, FALSE)

\* mounted with a string: markup, the JSON encoding of an object, or other text
InitString ==
  \E status \in DataStatuses, dpt \in BOOLEAN, lt \in BOOLEAN :
    \/ \E t \in OtherStrings \cup MarkupPool :
         InitWith(StringData(t), status, dpt, lt)
    \/ \E e \in SeqsUpTo(VertexPool, MaxEdges - 1), w \in WidthPool,
          h \in HeightPool, s \in ScalePool :
         InitWith(StringData(JSONText(JSONStringify(Object(e, w, h, s)))),
                  status, dpt, lt)

InitData == NoCall /\ NoService /\ (InitValue \/ InitString)

ReceiveMarkup ==
  /\ blueprintData.kind = "string"
  /\ blueprintData.text.form = "markup"
  /\ \E m \in MarkupPool, dpt \in BOOLEAN, lt \in BOOLEAN :
       SetBlueprintData(StringData(m), dpt, lt)

ReceiveJSONEncoding ==
  /\ blueprintData.kind = "value"
  /\ isBlueprintObject(blueprintData.val)
  /\ \E dpt \in BOOLEAN, lt \in BOOLEAN :
       SetBlueprintData(StringData(JSONText(JSONStringify(blueprintData.val))),
                        dpt, lt)

NextData == ReceiveMarkup \/ ReceiveJSONEncoding

SpecData == InitData /\ [][NextData]_vars

(***************************************************************************)
(* SpecView: the mounted component under viewport events, prop changes,    *)
(* unmount and remount.                                                    *)
(***************************************************************************)
RectangleObject ==
  JSValue(TRUE, TRUE,
          <<Vertex(Num(0), Num(0)), Vertex(Num(100), Num(0)),
            Vertex(Num(100), Num(50)), Vertex(Num(0), Num(50))>>,
          Num(100), Num(50), Num(1))

ViewDataPool == {Absent, ValueData(RectangleObject)}
ViewStatuses == {"processing", "complete"}

InitView ==
  /\ NoCall
  /\ NoService
  /\ \E data \in ViewDataPool, status \in ViewStatuses :
       InitWith(data, status, FALSE, FALSE)

ChangeBlueprintData == \E data \in ViewDataPool : SetBlueprintData(data, FALSE, FALSE)
ChangeJobStatus == \E status \in ViewStatuses : SetJobStatus(status)
WheelEvent == \E deltaYPositive \in BOOLEAN : Wheel(deltaYPositive)
MouseDown == \E p \in PointerPool : handleMouseDown(p)
MouseMove == \E p \in PointerPool : handleMouseMove(p)

NextView ==
  \/ ChangeBlueprintData
  \/ ChangeJobStatus
  \/ WheelEvent
  \/ MouseDown
  \/ MouseMove
  \/ handleMouseUp
  \/ MouseLeave
  \/ handleReset
  \/ handleZoomIn
  \/ handleZoomOut
  \/ Unmount
  \/ Remount

SpecView == InitView /\ [][NextView]_vars

(***************************************************************************)
(* SpecSanitizer: one call of a function of the svg-sanitizer on its own,  *)
(* the dangerousPatterns loop on a string of fragments or                  *)
(* validateSVGDimensions on a string with declared extents.  The component *)
(* stays as it was mounted.                                                *)
(***************************************************************************)
\* longest string of fragments
MaxFragments == 4

ExtentPool == {100, DefaultMaxWidth, DefaultMaxWidth + 1}
AttrPool == {NoAttr} \cup {Attr(n) : n \in ExtentPool}
ViewBoxPool == {NoViewBox} \cup {ViewBox(w, h) : w \in ExtentPool, h \in ExtentPool}

InitSanitizer ==
  /\ InitWith(Absent, "complete", FALSE, FALSE)
  /\ NoService
  /\ clean = NotRun
  /\ sizeOk = NotRun
  /\ \/ \E chars \in SeqsUpTo(Fragments, MaxFragments) :
          svgInput = [chars |-> chars,
                      declared |-> Declared(chars = <<>>, NoAttr, NoAttr, NoViewBox)]
     \/ \E w \in AttrPool, h \in AttrPool, vb \in ViewBoxPool :
          svgInput = [chars |-> <<"x">>, declared |-> Declared(FALSE, w, h, vb)]

\* clean = sanitized; for (const pattern of dangerousPatterns) ...
RunDangerousPatternsLoop ==
  /\ ~clean.ran
  /\ ~sizeOk.ran
  /\ clean' = [ran |-> TRUE, chars |-> dangerousPatternsLoop(svgInput.chars),
               ok |-> FALSE]
  /\ UNCHANGED <<component, services, svgInput, sizeOk>>

\* validateSVGDimensions(svgString) with the default ceilings
RunValidateSVGDimensions ==
  /\ ~sizeOk.ran
  /\ ~clean.ran
  /\ sizeOk' = [ran |-> TRUE, chars |-> <<>>,
                ok |-> validateSVGDimensions(svgInput.declared,
                                             DefaultMaxWidth, DefaultMaxHeight)]
  /\ UNCHANGED <<component, services, svgInput, clean>>

NextSanitizer == RunDangerousPatternsLoop \/ RunValidateSVGDimensions

SpecSanitizer == InitSanitizer /\ [][NextSanitizer]_vars

(***************************************************************************)
(* The rate limiters.  Time is read from the clock `now`, which only moves *)
(* forward; floor(elapsed * maxRequests / windowMs) is computed exactly.   *)
(***************************************************************************)
maxRequests == 2
windowMs == 4
MaxTime == 6
MaxCalls == 5

Min(a, b) == IF a <= b THEN a ELSE b

\* Math.floor(elapsed * refillRate), refillRate = maxRequests / windowMs
tokensToAdd(elapsed) == (elapsed * maxRequests) \div windowMs

\* the refill without the Math.min cap
RefillUncapped(state, t) ==
  [stored |-> state.stored,
   tokens |-> state.tokens + tokensToAdd(t - state.lastRefill),
   lastRefill |-> t]

\* state.tokens = Math.min(maxRequests, state.tokens + tokensToAdd);
\* state.lastRefill = now
Refill(state, t) ==
  [stored |-> state.stored,
   tokens |-> Min(maxRequests, state.tokens + tokensToAdd(t - state.lastRefill)),
   lastRefill |-> t]

\* this.buckets.get(fullKey) || { tokens: maxRequests, lastRefill: now }
BucketState(key) ==
  IF buckets[key].stored
    THEN buckets[key]
    ELSE [stored |-> FALSE, tokens |-> maxRequests, lastRefill |-> now]

Called(key, ok) ==
  calls' = [calls EXCEPT ![key] = Append(@, [at |-> now, ok |-> ok])]

CallsSoFar == Len(calls["a"]) + Len(calls["b"])

\* TokenBucketRateLimiter.checkLimit(key): the refill is written into the
\* object held by the map, so a rejected call on a stored key leaves its
\* lastRefill at now as well
TokenBucketCheckLimit(key) ==
  /\ CallsSoFar < MaxCalls
  /\ IF Refill(BucketState(key), now).tokens > 0
       THEN /\ buckets' = [buckets EXCEPT ![key] =
                             [stored |-> TRUE,
                              tokens |-> Refill(BucketState(key), now).tokens - 1,
                              lastRefill |-> now]]
            /\ Called(key, TRUE)
       ELSE /\ buckets' = [buckets EXCEPT ![key] =
                             IF @.stored THEN Refill(@, now) ELSE @]
            /\ Called(key, FALSE)
  /\ UNCHANGED <<component, sanitizerCall, hooks, now, windows>>

\* TokenBucketRateLimiter.getTokenCount(key)
getTokenCount(key) ==
  IF ~buckets[key].stored
    THEN maxRequests
    ELSE Min(maxRequests,
             buckets[key].tokens + tokensToAdd(now - buckets[key].lastRefill))

\* ts > windowStart, and the same test with the boundary kept
InWindowInclusive(ts, windowStart) == ts >= windowStart
InWindow(ts, windowStart) == ts > windowStart

\* timestamps.filter(ts => ts > windowStart)
Filter(timestamps, windowStart) ==
  SelectSeq(timestamps, LAMBDA ts : InWindow(ts, windowStart))

\* SlidingWindowRateLimiter.checkLimit(key)
SlidingWindowCheckLimit(key) ==
  /\ CallsSoFar < MaxCalls
  /\ IF Len(Filter(windows[key], now - windowMs)) < maxRequests
       THEN /\ windows' = [windows EXCEPT ![key] =
                             Append(Filter(windows[key], now - windowMs), now)]
            /\ Called(key, TRUE)
       ELSE /\ UNCHANGED windows
            /\ Called(key, FALSE)
  /\ UNCHANGED <<component, sanitizerCall, hooks, now, buckets>>

\* SlidingWindowRateLimiter.getRequestCount(key)
getRequestCount(key) == Len(Filter(windows[key], now - windowMs))

\* time passes between two calls
Tick ==
  /\ now < MaxTime
  /\ now' = now + 1
  /\ UNCHANGED <<component, sanitizerCall, hooks, buckets, windows, calls>>

InitLimiter ==
  /\ InitWith(Absent, "complete", FALSE, FALSE)
  /\ NoCall
  /\ NoService

TokenBucketCall == \E key \in Keys : TokenBucketCheckLimit(key)
SlidingWindowCall == \E key \in Keys : SlidingWindowCheckLimit(key)

NextTokenBucket == Tick \/ TokenBucketCall
SpecTokenBucket == InitLimiter /\ [][NextTokenBucket]_vars

NextSlidingWindow == Tick \/ SlidingWindowCall
SpecSlidingWindow == InitLimiter /\ [][NextSlidingWindow]_vars

(***************************************************************************)
(* The hooks useJob(id) and useJobs(filters).  Both have the same shape:   *)
(* fetchJob / fetchJobs is an async function that returns before its await *)
(* without a listener (useJob with an empty id; no signed-in user),        *)
(* awaits firestoreReadLimiter.checkLimit, and after it either returns     *)
(* without a listener (rate limited) or calls onSnapshot and returns the   *)
(* function that unsubscribes.  The effect calls it and stores that        *)
(* function in its `unsubscribe` variable when the promise settles; the    *)
(* hook also hands fetchJob / fetchJobs out as `retry`.  `key` is the id,  *)
(* respectively filters.status.  The continuation after the await and the  *)
(* then-callback of the effect run as consecutive microtasks, so they are  *)
(* one step.                                                               *)
(***************************************************************************)
MaxFetches == 3

HookKinds == {"useJob", "useJobs"}
HookKeys == {"", "j1", "j2"}

\* let unsubscribe: (() => void) | undefined
NewEffect(instance, key) ==
  [instance |-> instance, key |-> key, unsubscribe |-> 0, cleaned |-> FALSE]

\* fetchJob() / fetchJobs() up to its await: if (!id) return;
\* if (!userId) { ...; return }; await firestoreReadLimiter.checkLimit(...)
Started(origin, kind, instance, key, effect, authenticated) ==
  [origin |-> origin, instance |-> instance, key |-> key, effect |-> effect,
   status |-> IF kind = "useJob" /\ key = "" THEN "returned"
              ELSE IF ~authenticated THEN "unauthenticated"
              ELSE "pending"]

\* return () => { if (unsubscribe) { unsubscribe(); } }
CleanedUp(effect) ==
  IF effects[effect].unsubscribe # 0
    THEN [fetches EXCEPT ![effects[effect].unsubscribe].status = "closed"]
    ELSE fetches

UnsubscribeCalls(effect) ==
  IF effects[effect].unsubscribe # 0
    THEN updates.unsubscribes + 1
    ELSE updates.unsubscribes

\* the effect of a new dependency value: useEffect(() => { ... }, [fetchJob])
RunEffect(kind, instance, key, authenticated, before) ==
  /\ effects' = Append(before, NewEffect(instance, key))
  /\ hook' = [mounted |-> TRUE, kind |-> kind, key |-> key,
              instance |-> instance, effect |-> Len(effects) + 1,
              job |-> IF instance = hook.instance THEN hook.job ELSE "none"]

\* a component using the hook mounts
HookMount(kind, key, authenticated) ==
  /\ ~hook.mounted
  /\ Len(fetches) < MaxFetches
  /\ RunEffect(kind, hook.instance + 1, key, authenticated, effects)
  /\ fetches' = Append(fetches,
                       Started("effect", kind, hook.instance + 1, key,
                               Len(effects) + 1, authenticated))
  /\ UNCHANGED <<component, sanitizerCall, limiters, updates>>

\* the id / filters.status changes: the cleanup of the previous effect run,
\* then the effect again
ChangeKey(key, authenticated) ==
  /\ hook.mounted
  /\ key # hook.key
  /\ Len(fetches) < MaxFetches
  /\ RunEffect(hook.kind, hook.instance, key, authenticated,
               [effects EXCEPT ![hook.effect].cleaned = TRUE])
  /\ fetches' = Append(CleanedUp(hook.effect),
                       Started("effect", hook.kind, hook.instance, key,
                               Len(effects) + 1, authenticated))
  /\ updates' = [updates EXCEPT !.unsubscribes = UnsubscribeCalls(hook.effect)]
  /\ UNCHANGED <<component, sanitizerCall, limiters>>

\* the caller invokes retry, which is fetchJob / fetchJobs itself; the
\* function it resolves to is the caller's to keep
Retry(authenticated) ==
  /\ hook.mounted
  /\ Len(fetches) < MaxFetches
  /\ fetches' = Append(fetches,
                       Started("retry", hook.kind, hook.instance, hook.key,
                               0, authenticated))
  /\ UNCHANGED <<component, sanitizerCall, limiters, hook, effects, updates>>

\* checkLimit settles: on RateLimitError fetchJob returns; otherwise
\* onSnapshot(...) creates the listener, and for a call made by the effect
\* the then-callback assigns `unsubscribe`
Settle(fetch, allowed) ==
  /\ fetches[fetch].status = "pending"
  /\ fetches' = [fetches EXCEPT ![fetch].status =
                   IF allowed THEN "active" ELSE "rateLimited"]
  /\ effects' = IF allowed /\ fetches[fetch].origin = "effect"
                  THEN [effects EXCEPT ![fetches[fetch].effect].unsubscribe = fetch]
                  ELSE effects
  /\ UNCHANGED <<component, sanitizerCall, limiters, hook, updates>>

\* the instance that made the fetch is no longer on screen
Unmounted(fetch) ==
  ~hook.mounted \/ fetches[fetch].instance # hook.instance

\* a listener delivers a snapshot: its callback calls setJob / setJobs,
\* setError, setLoading
SnapshotCallback(fetch) ==
  /\ fetches[fetch].status = "active"
  /\ hook' = IF Unmounted(fetch) THEN hook
             ELSE [hook EXCEPT !.job = fetches[fetch].key]
  /\ updates' = [updates EXCEPT
                   !.afterUnmount = @ \/ Unmounted(fetch),
                   !.superseded = @ \/ (/\ ~Unmounted(fetch)
                                        /\ fetches[fetch].key # hook.key)]
  /\ UNCHANGED <<component, sanitizerCall, limiters, effects, fetches>>

\* the component using the hook unmounts: the cleanup of the effect
HookUnmount ==
  /\ hook.mounted
  /\ hook' = [hook EXCEPT !.mounted = FALSE]
  /\ effects' = [effects EXCEPT ![hook.effect].cleaned = TRUE]
  /\ fetches' = CleanedUp(hook.effect)
  /\ updates' = [updates EXCEPT !.unsubscribes = UnsubscribeCalls(hook.effect)]
  /\ UNCHANGED <<component, sanitizerCall, limiters>>

InitHooks ==
  /\ InitWith(Absent, "complete", FALSE, FALSE)
  /\ NoCall
  /\ NoService

Mounts ==
  \E kind \in HookKinds, key \in HookKeys, authenticated \in BOOLEAN :
    HookMount(kind, key, authenticated)
KeyChanges ==
  \E key \in HookKeys, authenticated \in BOOLEAN : ChangeKey(key, authenticated)
Retries == \E authenticated \in BOOLEAN : Retry(authenticated)
Settles == \E fetch \in DOMAIN fetches, allowed \in BOOLEAN : Settle(fetch, allowed)
Snapshots == \E fetch \in DOMAIN fetches : SnapshotCallback(fetch)

NextHooks ==
  \/ Mounts
  \/ KeyChanges
  \/ Retries
  \/ Settles
  \/ Snapshots
  \/ HookUnmount

SpecHooks == InitHooks /\ [][NextHooks]_vars

(***************************************************************************)
(* Properties.                                                             *)
(***************************************************************************)
NotProcessing == jobStatus # "processing"
Edges == parsedData.geom.edges

\* C1: after any sequence of wheel events, zoom-in, zoom-out and reset
\* clicks, the zoom factor is within [0.5, 3.0].
C1_ZoomWithinRange == RatLeq(ZoomMin, zoom) /\ RatLeq(zoom, ZoomMax)

\* the upper clamp has acted: six zoom-in steps stay below 3.0, the seventh
\* does not
C1_Witness == zoom = ZoomMax /\ events > 0

AllCoordinatesNumbers(edges) ==
  \A i \in 1..Len(edges) :
    /\ IsNumberType(edges[i].x) /\ ~IsNaN(edges[i].x)
    /\ IsNumberType(edges[i].y) /\ ~IsNaN(edges[i].y)

\* C3: a canonical geometry with at least 2 vertices, width > 0, height > 0,
\* scale > 0 and no NaN coordinate validates as Valid, and the diagram is
\* rendered unless the job is processing.
C3_WellFormedIsRendered ==
  ( /\ ~parsedData.isNull
    /\ Len(Edges) >= 2
    /\ GtZero(parsedData.geom.width)
    /\ GtZero(parsedData.geom.height)
    /\ GtZero(parsedData.geom.scale)
    /\ AllCoordinatesNumbers(Edges) )
  => /\ validation = Valid
     /\ NotProcessing => view.outcome = "diagram" /\ view.drawn = Edges

\* a two-vertex geometry that meets the precondition is on screen
C3_Witness ==
  /\ ~parsedData.isNull
  /\ Len(Edges) = 2
  /\ GtZero(parsedData.geom.width)
  /\ GtZero(parsedData.geom.height)
  /\ GtZero(parsedData.geom.scale)
  /\ AllCoordinatesNumbers(Edges)
  /\ view.outcome = "diagram"

\* C4: at least 2 vertices, scale > 0 and dimensions {width: NaN, height: 50}
\* give the outcome invalid-dimensions.
C4_NaNWidthIsInvalidDimensions ==
  ( /\ ~parsedData.isNull
    /\ Len(Edges) >= 2
    /\ GtZero(parsedData.geom.scale)
    /\ parsedData.geom.width = NaN
    /\ parsedData.geom.height = Num(50) )
  => validation.reason = "invalid-dimensions"

\* the vertices the claim says are kept: x and y numbers other than NaN
KeptByClaim(edges) ==
  SelectSeq(edges, LAMBDA e : /\ e.x.t \in {"num", "inf", "ninf"}
                               /\ e.y.t \in {"num", "inf", "ninf"})

\* C5: after Valid, exactly the vertices whose x and y are numbers other than
\* NaN are kept (Infinity is kept); the invalid-edge-data placeholder shows
\* iff fewer than 2 remain, otherwise the diagram is drawn from them alone.
C5_PostFilter ==
  validation.isValid /\ NotProcessing
  => /\ view.outcome = "invalid-edge-data" <=> Len(KeptByClaim(Edges)) < 2
     /\ Len(KeptByClaim(Edges)) >= 2
          => view.outcome = "diagram" /\ view.drawn = KeptByClaim(Edges)

\* a diagram drawn after a vertex was dropped, with an Infinity vertex kept
C5_Witness ==
  /\ validation.isValid
  /\ view.outcome = "diagram"
  /\ Len(view.drawn) < Len(Edges)
  /\ \E i \in 1..Len(view.drawn) : view.drawn[i].x = Infinity

\* exactly one coordinate of the list is NaN, all others are numbers
OneNaNCoordinate(edges) ==
  /\ Cardinality({i \in 1..Len(edges) : IsNaN(edges[i].x)})
       + Cardinality({i \in 1..Len(edges) : IsNaN(edges[i].y)}) = 1
  /\ \A i \in 1..Len(edges) :
       IsNumberType(edges[i].x) /\ IsNumberType(edges[i].y)

\* C6 as stated: a list of any length >= 2 that passes staged validation and
\* has one NaN coordinate gives invalid-edge-data.
C6_OneNaNAnyLength ==
  validation.isValid /\ NotProcessing /\ OneNaNCoordinate(Edges)
  => view.outcome = "invalid-edge-data"

\* C6 amended: such a list gives invalid-edge-data exactly when it has 2
\* vertices; a longer one is drawn from the vertices other than the NaN one.
C6_OneNaNTwoVertices ==
  validation.isValid /\ NotProcessing /\ OneNaNCoordinate(Edges)
  => /\ view.outcome = "invalid-edge-data" <=> Len(Edges) = 2
     /\ Len(Edges) > 2
          => /\ view.outcome = "diagram"
             /\ Len(view.drawn) = Len(Edges) - 1
             /\ AllCoordinatesNumbers(view.drawn)

C6_Witness ==
  /\ validation.isValid
  /\ OneNaNCoordinate(Edges)
  /\ Len(Edges) = 2
  /\ view.outcome = "invalid-edge-data"

IsCanonicalJSONString(data) ==
  /\ data.kind = "string"
  /\ data.text.form = "json"
  /\ isBlueprintObject(data.text.val)

\* C7: a string is JSON-decoded first and a decoded canonical value is
\* returned; the sanitizer cannot turn a canonical JSON string into null.
C7_CanonicalJSONIsDecoded ==
  IsCanonicalJSONString(blueprintData)
  => parsedData = Geometry(blueprintData.text.val)

\* the last render was given the JSON encoding of the object before it
IsJSONEncodingOfPrev ==
  /\ prev.has
  /\ prev.data.kind = "value"
  /\ isBlueprintObject(prev.data.val)
  /\ blueprintData = StringData(JSONText(JSONStringify(prev.data.val)))

\* C8: normalizing the JSON encoding of a canonical object gives an object
\* equal to the original, hence the same validation outcome.
C8_RoundTrip ==
  IsJSONEncodingOfPrev
  => /\ parsedData = Geometry(prev.data.val)
     /\ validation = Validation(prev.parsed)

NamedOutcomes ==
  {"processing", "no-data", "insufficient-edges", "invalid-dimensions",
   "invalid-scale", "zero-dimensions", "invalid-edge-data", "diagram"}

\* the inputs and failures the claim lists as ending in null
EndsInNull ==
  \/ blueprintData.kind = "absent"
  \/ blueprintData.kind = "value" /\ ~isBlueprintObject(blueprintData.val)
  \/ /\ blueprintData.kind = "string"
     /\ \/ blueprintData.text.form \in {"empty", "blank", "garbage"}
        \/ blueprintData.text.form = "json"
             /\ ~isBlueprintObject(blueprintData.text.val)
        \/ domPurifyThrows
        \/ loggerThrows /\ ~isSVGSafe(blueprintData.text)

\* C9: for every input and every internal failure normalisation returns null
\* without raising, and the component ends in one of the named states.
C9_NothingEscapes ==
  /\ ~escaped
  /\ EndsInNull => parsedData.isNull
  /\ view.outcome \in NamedOutcomes
  /\ NotProcessing /\ parsedData.isNull => view.outcome = "no-data"

\* an exception raised inside the try block (the logger, on flagged markup)
\* was absorbed
C9_Witness ==
  /\ blueprintData.kind = "string"
  /\ blueprintData.text.form = "markup"
  /\ ~isSVGSafe(blueprintData.text)
  /\ loggerThrows
  /\ ~domPurifyThrows
  /\ parsedData.isNull
  /\ view.outcome = "no-data"

IsMarkupString(data) == data.kind = "string" /\ data.text.form = "markup"

\* C10: the geometry of a markup string is a function of its sanitized form:
\* two markup strings with the same sanitized output normalize to the same
\* geometry (both passes free of internal failures).
C10_GeometryFromSanitizedForm ==
  ( /\ prev.has
    /\ ~prev.failed
    /\ ~domPurifyThrows
    /\ ~loggerThrows
    /\ IsMarkupString(prev.data)
    /\ IsMarkupString(blueprintData)
    /\ sanitizeSVG(prev.data.text, FALSE) = sanitizeSVG(blueprintData.text, FALSE) )
  => parsedData = prev.parsed

(***************************************************************************)
(* The path interpreter as C11 states it: the vertices a cursor emits, and *)
(* the extent of those vertices.                                           *)
(***************************************************************************)
\* the first d attribute of a path element
RECURSIVE FirstPathAttribute(_)
FirstPathAttribute(elems) ==
  IF elems = <<>> THEN [found |-> FALSE, d |-> <<>>]
  ELSE IF Head(elems).tag = "path" /\ Head(elems).hasD
  THEN [found |-> TRUE, d |-> Head(elems).d]
  ELSE FirstPathAttribute(Tail(elems))

Upper(c) == IF c \in {"m", "l", "h", "v"} THEN ToUpperCase(c) ELSE c

\* the vertices emitted from cursor (x, y) over the commands
RECURSIVE Emitted(_, _, _)
Emitted(x, y, commands) ==
  IF commands = <<>> THEN <<>>
  ELSE LET cmd == Head(commands)
           n == Len(cmd.args)
       IN IF Upper(cmd.c) \in {"M", "L"} /\ n >= 2
          THEN <<Vertex(cmd.args[1], cmd.args[2])>>
                 \o Emitted(cmd.args[1], cmd.args[2], Tail(commands))
          ELSE IF Upper(cmd.c) = "H" /\ n >= 1
          THEN <<Vertex(cmd.args[1], y)>> \o Emitted(cmd.args[1], y, Tail(commands))
          ELSE IF Upper(cmd.c) = "V" /\ n >= 1
          THEN <<Vertex(x, cmd.args[1])>> \o Emitted(x, cmd.args[1], Tail(commands))
          ELSE Emitted(x, y, Tail(commands))

\* max - min of a non-empty set of integers
Extent(S) ==
  (CHOOSE hi \in S : \A k \in S : k <= hi) - (CHOOSE lo \in S : \A k \in S : lo <= k)

\* the result C11 and C12 state for the path data d (finite operands)
StatedResult(d) ==
  LET vs == Emitted(Num(0), Num(0), d)
  IN IF Len(vs) < 2 THEN NullResult
     ELSE Geometry(JSValue(TRUE, TRUE, vs,
                           Num(Extent({vs[i].x.v : i \in 1..Len(vs)})),
                           Num(Extent({vs[i].y.v : i \in 1..Len(vs)})),
                           Num(1)))

\* a markup string went through a pass free of internal failures and kept
\* content after sanitization
MarkupPassed ==
  /\ IsMarkupString(blueprintData)
  /\ ~domPurifyThrows
  /\ ~loggerThrows
  /\ ~extractAndSanitizeSVG(blueprintData.text, FALSE).isNull

\* C11: the result for a markup string is what the cursor emits over the
\* commands of the first path attribute: the vertices in order, dimensions
\* (maxX-minX, maxY-minY) over those vertices, and scale 1.
C11_PathInterpreter ==
  MarkupPassed /\ FirstPathAttribute(blueprintData.text.elems).found
  => parsedData = StatedResult(FirstPathAttribute(blueprintData.text.elems).d)

\* the parser emits fewer than 2 vertices from the string: it finds no path
\* data, or the commands it finds emit none or one
EmitsFewerThanTwo(text) ==
  \/ ~FirstPathData(text.elems).found
  \/ Len(Emitted(Num(0), Num(0), FirstPathData(text.elems).d)) < 2

\* C12: a markup string from which the parser emits fewer than 2 vertices
\* normalizes to null and gives the no-data outcome, never
\* insufficient-edges.
C12_FewVerticesIsNoData ==
  IsMarkupString(blueprintData) /\ EmitsFewerThanTwo(blueprintData.text)
  => /\ parsedData.isNull
     /\ validation = Invalid("no-data")
     /\ NotProcessing => view.outcome = "no-data"

\* the single point M 50 50 went through the parser and no-data is shown
C12_Witness ==
  /\ MarkupPassed
  /\ FirstPathData(blueprintData.text.elems).found
  /\ Len(Emitted(Num(0), Num(0), FirstPathData(blueprintData.text.elems).d)) = 1
  /\ parsedData.isNull
  /\ NotProcessing
  /\ view.outcome = "no-data"

\* C13: while the job status is processing the processing placeholder is
\* returned whatever the input is: no validation placeholder, no diagram.
C13_ProcessingPreempts ==
  jobStatus = "processing"
  => /\ view.outcome = "processing"
     /\ view.title = "PROCESSING BLUEPRINT..."
     /\ view.drawn = <<>>

\* the processing placeholder over a geometry that would be drawn, and over
\* an input that would give a validation placeholder
C13_Witness ==
  /\ jobStatus = "processing"
  /\ view.outcome = "processing"
  /\ validation.isValid
  /\ Len(ValidEdges(Edges)) >= 2

\* a string that reaches the sanitizer inside normalisation
IsSanitizedString(data) ==
  data.kind = "string" /\ data.text.form \notin {"empty", "blank"}

\* C14: when DOMPurify or the denylist loop raises, sanitizeSVG gives the
\* empty string (never its input) and raises nothing; inside normalisation a
\* string whose sanitization gives empty/null gives null (no-data), and the
\* event SVG_SANITIZATION_FAILED is handed to the logger.
C14_FailSecure ==
  IsSanitizedString(blueprintData)
  => /\ sanitizeSVG(blueprintData.text, TRUE) = EmptyString
     /\ extractAndSanitizeSVG(blueprintData.text, TRUE).isNull
     /\ extractAndSanitizeSVG(blueprintData.text, domPurifyThrows).isNull
          => /\ parsedData.isNull
             /\ ~escaped
             /\ validation = Invalid("no-data")
             /\ passLog = <<"SVG_SANITIZATION_FAILED">>

\* DOMPurify raised on markup that holds a valid outline
C14_Witness ==
  /\ IsMarkupString(blueprintData)
  /\ domPurifyThrows
  /\ ~StatedResult(FirstPathAttribute(blueprintData.text.elems).d).isNull
  /\ parsedData.isNull
  /\ passLog = <<"SVG_SANITIZATION_FAILED">>

HasScript(text) == \E i \in 1..Len(text.elems) : text.elems[i].tag = "script"

C16_DenylistOutputClean ==
  clean.ran
  => \A k \in 2..Len(dangerousPatterns) : ~Test(dangerousPatterns[k], clean.chars)

\* some declared extent of the string is above the ceiling
ExceedsCeiling(declared) ==
  \/ declared.width.present /\ declared.width.v > DefaultMaxWidth
  \/ declared.height.present /\ declared.height.v > DefaultMaxHeight
  \/ /\ declared.viewBox.present
     /\ \/ declared.viewBox.w > DefaultMaxWidth
        \/ declared.viewBox.h > DefaultMaxHeight

\* C17: the size guard returns false for every markup whose declared width,
\* declared height or viewBox width or height is above the ceiling,
\* whichever of the attributes are present, and true when all declared
\* extents are within it.
C17_SizeGuard ==
  sizeOk.ran /\ ~svgInput.declared.isEmpty
  => (sizeOk.ok <=> ~ExceedsCeiling(svgInput.declared))

\* C18: while only pointer-moves followed the last pointer-down, pan is its
\* value at that pointer-down plus (last pointer - pointer at pointer-down)
\* on each axis, and the drag anchor is the last pointer position.
C18_DragAccumulation ==
  history.active
  => /\ isDragging
     /\ pan.x = history.pan0.x + (history.last.x - history.p0.x)
     /\ pan.y = history.pan0.y + (history.last.y - history.p0.y)
     /\ dragStart = history.last

\* a second drag, two moves long, that moved the pan
C18_Witness ==
  /\ history.active
  /\ history.moves >= 2
  /\ history.pan0 # Point(0, 0)
  /\ pan # history.pan0
  /\ history.last # history.p0

\* C19: isDragging is true exactly when the last of pointer-down, pointer-up
\* and pointer-leave was a pointer-down, and a pointer-move while isDragging
\* is false changes neither pan nor the drag anchor.
C19_DraggingFollowsPointer ==
  /\ [](isDragging <=> history.lastPointer = "down")
  /\ [][ ~isDragging /\ events' = events + 1 /\ history'.lastEvent = "move"
          => pan' = pan /\ dragStart' = dragStart ]_vars

\* a pointer-move after the drag was released by pointer-leave, with the pan
\* the drag left
C19_Witness ==
  /\ ~isDragging
  /\ history.lastEvent = "move"
  /\ history.lastPointer = "leave"
  /\ pan # Point(0, 0)
  /\ dragStart # Point(0, 0)

\* C20: after the reset action, from any viewport state (a drag in progress
\* included), zoom is 1.0, pan is (0,0) and isDragging is false.
C20_ResetClearsViewport ==
  history.lastEvent = "reset"
  => zoom = ZoomInitial /\ pan = Point(0, 0) /\ ~isDragging

\* C21: whenever the component is mounted and the diagram is displayed a
\* wheel listener is registered on the displayed svg element, also when the
\* diagram appeared after a placeholder; after unmount none is registered.
C21_ListenerLifetime ==
  /\ mounted /\ view.outcome = "diagram" => listener = "attached"
  /\ ~mounted => listener = "none"

\* C22: between mount and unmount, zoom changes only by wheel, zoom-in,
\* zoom-out and reset; pan only by a pointer-move while dragging and by
\* reset; a viewport event changes neither the normalized geometry nor the
\* validation outcome; a change of blueprintData or jobStatus leaves zoom,
\* pan, isDragging and dragStart as they were.
C22_ViewportIndependent ==
  [][ mounted /\ mounted'
      => /\ zoom' # zoom
              => WheelEvent \/ handleZoomIn \/ handleZoomOut \/ handleReset
         /\ pan' # pan => (isDragging /\ MouseMove) \/ handleReset
         /\ events' # events
              => parsedData' = parsedData /\ validation' = validation
         /\ (blueprintData' # blueprintData \/ jobStatus' # jobStatus)
              => UNCHANGED viewport ]_vars

\* zoom and pan set by events, kept through a change of blueprintData
C22_Witness ==
  /\ prev.has
  /\ zoom # ZoomInitial
  /\ pan # Point(0, 0)
  /\ isDragging
  /\ events >= 3
  /\ view.outcome = "diagram"

\* the phases in which a failure placeholder can show
FailurePhases == {"capturing", "complete", "failed"}

C29_UnreachableReasons ==
  /\ validation.reason # "invalid-dimensions"
  /\ view.outcome # "invalid-dimensions"
  /\ ~parsedData.isNull
       => /\ IsNumberType(parsedData.geom.width)
          /\ IsNumberType(parsedData.geom.height)
          /\ IsNumberType(parsedData.geom.scale)
  /\ validation.reason = "insufficient-edges"
       => /\ Len(Edges) = 1
          /\ \/ blueprintData.kind = "value" /\ isBlueprintObject(blueprintData.val)
             \/ IsCanonicalJSONString(blueprintData)

\* an object with two vertices and no width gives no-data; and a one-vertex
\* JSON string gives insufficient-edges
C29_Witness ==
  /\ NotProcessing
  /\ \/ /\ blueprintData.kind = "value"
        /\ blueprintData.val.edgesIsArray
        /\ Len(blueprintData.val.edges) >= 2
        /\ blueprintData.val.width = Undefined
        /\ view.outcome = "no-data"
     \/ /\ IsCanonicalJSONString(blueprintData)
        /\ view.outcome = "insufficient-edges"


\* the accepted calls of a key, and how many of them fall in (t - windowMs, t]
Accepted(key) == {i \in DOMAIN calls[key] : calls[key][i].ok}
AcceptedIn(key, t) ==
  Cardinality({i \in Accepted(key) :
                 calls[key][i].at > t - windowMs /\ calls[key][i].at <= t})

C27_RefillAfterExhaustion ==
  \A key \in Keys :
    \A i \in DOMAIN calls[key], j \in DOMAIN calls[key] :
      /\ j < i
      /\ calls[key][j].ok
      /\ \A k \in (j + 1)..i : ~calls[key][k].ok
      => (calls[key][i].at - calls[key][j].at) * maxRequests < windowMs

\* C28: for every time t at most maxRequests accepted calls of a key lie in
\* (t - windowMs, t]; a rejected call records no timestamp, so the stored
\* timestamps are those of the accepted calls within the window of the last
\* accepted one; a call is rejected only while the window holds maxRequests
\* accepted calls, so a call made after the oldest one left the window is
\* accepted again.
C28_SlidingWindow ==
  \A key \in Keys :
    /\ \A t \in 0..MaxTime : AcceptedIn(key, t) <= maxRequests
    /\ \A i \in DOMAIN calls[key] :
         \/ calls[key][i].ok
         \/ Cardinality({j \in Accepted(key) :
                           /\ j < i
                           /\ calls[key][j].at > calls[key][i].at - windowMs})
              = maxRequests
    /\ \A n \in DOMAIN windows[key] :
         \E i \in Accepted(key) : calls[key][i].at = windows[key][n]
    /\ Accepted(key) = {} => windows[key] = <<>>
    /\ \A i \in Accepted(key) :
         (\A j \in Accepted(key) : j <= i)
           => Len(windows[key]) = AcceptedIn(key, calls[key][i].at)
    /\ getRequestCount(key) = AcceptedIn(key, now)

\* a call was rejected on a full window and a later one, made after the
\* oldest timestamp left the window, was accepted
C28_Witness ==
  \E key \in Keys :
    \E i \in DOMAIN calls[key], j \in DOMAIN calls[key] :
      /\ i < j
      /\ ~calls[key][i].ok
      /\ calls[key][j].ok
      /\ calls[key][j].at >= calls[key][1].at + windowMs

\* the fetches that created a listener
Created == {fetch \in DOMAIN fetches : fetches[fetch].status \in {"active", "closed"}}

\* the listeners of the instance on screen that are still subscribed
ActiveListeners ==
  {fetch \in DOMAIN fetches :
     ~Unmounted(fetch) /\ fetches[fetch].status = "active"}

\* C24: whatever the interleaving of mount, settlement of the asynchronous
\* fetch and unmount, no listener created by an unmounted instance stays
\* subscribed, no snapshot callback updates state after the unmount and,
\* once nothing is mounted, there were as many unsubscribe calls as
\* listeners created.
C24_UnsubscribedAfterUnmount ==
  /\ \A fetch \in DOMAIN fetches :
       Unmounted(fetch) => fetches[fetch].status # "active"
  /\ ~updates.afterUnmount
  /\ ~hook.mounted => updates.unsubscribes = Cardinality(Created)

\* C25: after a change of the id / filter, whenever the fetch of the
\* previous value settles, no listener that an effect run created for a
\* superseded value is still subscribed, and none has put its data into
\* state.
C25_SupersededUnsubscribed ==
  /\ \A fetch \in ActiveListeners :
       fetches[fetch].origin = "effect" => fetches[fetch].key = hook.key
  /\ ~updates.superseded

\* C30: a listener created through retry is the only subscribed listener of
\* the mounted hook, and no listener created through retry is subscribed
\* once the hook is unmounted; a fetch refused by the rate limiter or made
\* without a signed-in user has created no listener.
C30_OneListenerWithRetry ==
  /\ \A fetch \in ActiveListeners :
       fetches[fetch].origin = "retry" => ActiveListeners = {fetch}
  /\ \A fetch \in DOMAIN fetches :
       /\ fetches[fetch].origin = "retry"
       /\ fetches[fetch].status = "active"
       => ~Unmounted(fetch)
  /\ \A effect \in DOMAIN effects :
       effects[effect].unsubscribe # 0
         => effects[effect].unsubscribe \in Created

====
